---- MODULE Spec2Model ----
(***************************************************************************)
(* A model of parser.py (pan-os-config-parser): the object extraction      *)
(* pa_obj_parser, the rule extraction pa_rule_parser and the aggregation   *)
(* loop of __main__, over small PAN-OS configuration documents.            *)
(*                                                                         *)
(* A document is the lxml tree reduced to what the XPath queries of the    *)
(* program can see:                                                        *)
(*   panorama  TRUE iff /config/panorama exists                            *)
(*   entries   the <entry> elements that can own a rule base, in document  *)
(*             order; each with its attributes (in document order), the    *)
(*             text nodes of its display-name child, the number of         *)
(*             devices/entry[@name]/vsys/entry[@name] paths below it, and  *)
(*             the rule entries of its *rulebase*/security/rules children  *)
(*   services, addresses, service_groups, address_groups                   *)
(*             the object definitions the four object queries match        *)
(* A text is a sequence of pieces: a piece is WS (a run of whitespace) or  *)
(* a string holding no whitespace.                                         *)
(*                                                                         *)
(* The documents considered are PAN-OS exports: name is the first          *)
(* attribute of an entry, a rule entry holds at most one source, one       *)
(* destination and one service element, and the device and vsys entries    *)
(* below a device group hold no display-name and no rule base.  Entries    *)
(* of one name may occur several times in a document.                      *)
(***************************************************************************)
EXTENDS Integers, Sequences, FiniteSets, TLC

VARIABLES
    conf_path,              \* line 97: the documents of pa_configs/*.xml
    ci,                     \* line 98: the documents done
    tree,                   \* line 99: the global tree both parsers read
    pc,                     \* the position in __main__
    services,               \* line 102: the four dicts of pa_obj_parser
    addresses,
    service_groups,
    address_groups,
    pan_conf,               \* line 57: "None" or "True"
    pa_rulebase_ancestor,   \* lines 64, 69: the scope names to walk
    ai,                     \* line 73: the ancestors done
    pa_rule_base,           \* line 58: the rows of the running call
    rule_base,              \* line 96: one row list per document
    flat_rule_base_unique,  \* line 109
    rows                    \* line 114: the rows written, in written order

vars == <<conf_path, ci, tree, pc,
          services, addresses, service_groups, address_groups,
          pan_conf, pa_rulebase_ancestor, ai, pa_rule_base,
          rule_base, flat_rule_base_unique, rows>>

(***************************************************************************)
(* Bounds of the model.                                                    *)
(***************************************************************************)
MaxRules == 2
MaxEntries == 2
MaxVsys == 1
MaxConfs == 3
MaxServices == 2

(***************************************************************************)
(* Generic helpers.                                                        *)
(***************************************************************************)
Range(s) == {s[i] : i \in 1..Len(s)}

Min(a, b) == IF a < b THEN a ELSE b

SeqUpTo(S, n) == UNION {[1..k -> S] : k \in 0..n}

RECURSIVE Perms(_)
Perms(S) == IF S = {} THEN {<<>>}
            ELSE UNION {{<<x>> \o p : p \in Perms(S \ {x})} : x \in S}

(***************************************************************************)
(* Text: str.join, str.split, element.itertext, element.values.            *)
(***************************************************************************)
WS == " "

RECURSIVE Flatten(_)
\* the pieces of ''.join(chunks) for a sequence of texts
Flatten(chunks) ==
    IF chunks = <<>> THEN <<>> ELSE Head(chunks) \o Flatten(Tail(chunks))

RECURSIVE SplitAcc(_, _, _)
SplitAcc(text, cur, out) ==
    IF text = <<>> THEN (IF cur = "" THEN out ELSE Append(out, cur))
    ELSE IF Head(text) = WS
         THEN SplitAcc(Tail(text), "", IF cur = "" THEN out ELSE Append(out, cur))
         ELSE SplitAcc(Tail(text), cur \o Head(text), out)

\* str.split(): the maximal runs of non-whitespace; adjacent pieces that no
\* whitespace separates are one token
Split(text) == SplitAcc(text, "", <<>>)

RECURSIVE Join(_, _)
\* sep.join(strs)
Join(sep, strs) ==
    IF strs = <<>> THEN ""
    ELSE IF Len(strs) = 1 THEN strs[1]
    ELSE strs[1] \o sep \o Join(sep, Tail(strs))

RECURSIVE Interleave(_, _)
Interleave(members, pretty) ==
    IF members = <<>> THEN <<>>
    ELSE <<Head(members)>> \o (IF pretty THEN <<<<WS>>>> ELSE <<>>)
         \o Interleave(Tail(members), pretty)

\* element.itertext() of a member list: the text of each <member> child and,
\* in an indented document, the whitespace text around the children
IterText(el) ==
    (IF el.pretty /\ el.present THEN <<<<WS>>>> ELSE <<>>)
    \o Interleave(el.members, el.pretty)

\* element.values(): the attribute values in document order
Values(e) == [i \in 1..Len(e.attrib) |-> e.attrib[i][2]]

HasAttr(e, key) == \E i \in 1..Len(e.attrib) : e.attrib[i][1] = key

\* element.attrib[key] / the XPath @key
Attr(e, key) ==
    e.attrib[CHOOSE i \in 1..Len(e.attrib) : e.attrib[i][1] = key][2]

\* the XPath predicate [member] on a member list element
HasMember(el) == el.present /\ Len(el.members) > 0

(***************************************************************************)
(* Documents.                                                              *)
(***************************************************************************)
Elem(members, pretty) ==
    [present |-> TRUE, members |-> members, pretty |-> pretty]

NoElem == [present |-> FALSE, members |-> <<>>, pretty |-> FALSE]

RuleEntry(attrib, src, dst, svc) ==
    [attrib |-> attrib, source |-> src, destination |-> dst, service |-> svc]

Entry(name, display, nvsys, rules) ==
    [attrib |-> <<<<"name", name>>>>, display |-> display,
     nvsys |-> nvsys, rules |-> rules]

Doc(panorama, entries, svcs, addrs, sgroups, agroups) ==
    [panorama |-> panorama, entries |-> entries, services |-> svcs,
     addresses |-> addrs, service_groups |-> sgroups,
     address_groups |-> agroups]

NoTree == Doc(FALSE, <<>>, <<>>, <<>>, <<>>, <<>>)

(***************************************************************************)
(* pa_obj_parser.                                                          *)
(***************************************************************************)
\* dict[k] = v
Put(d, k, v) == [x \in (DOMAIN d) \cup {k} |-> IF x = k THEN v ELSE d[x]]

EmptyDict == [x \in {} |-> ""]

\* ServiceType with the test "'1-65535' in port_range" for the equality
ServiceTypeContains(s) ==
    LET port_range == Join("", s.port)
    IN  s.tag \o "_" \o
        (IF port_range \in {"1-65535", "1-65535,8080", "11-65535"}
         THEN "any" ELSE port_range)

\* lines 28-32: the port text, '1-65535' replaced by 'any', behind the tag
\* of the element enclosing <port>
ServiceType(s) ==
    LET port_range == Join("", s.port)
    IN  s.tag \o "_" \o (IF port_range = "1-65535" THEN "any" ELSE port_range)

RECURSIVE PaServices(_, _)
\* lines 21, 26-34: one assignment per matched service, in document order
PaServices(defs, d) ==
    IF defs = <<>> THEN d
    ELSE LET s == Head(defs)
         IN  PaServices(Tail(defs),
                        IF HasAttr(s, "name")
                        THEN Put(d, Values(s)[1], ServiceType(s))
                        ELSE d)

RECURSIVE PaAddresses(_, _)
\* lines 22, 36-37
PaAddresses(defs, d) ==
    IF defs = <<>> THEN d
    ELSE LET a == Head(defs)
         IN  PaAddresses(Tail(defs),
                         IF HasAttr(a, "name")
                         THEN Put(d, Values(a)[1], Split(Flatten(a.netmask)))
                         ELSE d)

RECURSIVE PaGroups(_, _)
\* lines 23-24, 39-43: groups whose member list holds a <member>
PaGroups(defs, d) ==
    IF defs = <<>> THEN d
    ELSE LET g == Head(defs)
         IN  PaGroups(Tail(defs),
                      IF HasAttr(g, "name") /\ HasMember(g.members)
                      THEN Put(d, Values(g)[1],
                               Split(Flatten(IterText(g.members))))
                      ELSE d)

(***************************************************************************)
(* pa_rule_parser.                                                         *)
(***************************************************************************)
VsysNames == {"vsys1", "vsys2"}

\* the XPath contains(@name, 'vsys'), over the names of the model
ContainsVsys(name) == name \in VsysNames

RECURSIVE SortedSeq(_)
\* a node-set in document order
SortedSeq(S) ==
    IF S = {} THEN <<>>
    ELSE LET m == CHOOSE x \in S : \A y \in S : x <= y
         IN  <<m>> \o SortedSeq(S \ {m})

\* line 61
IsPanorama(t) == t.panorama

\* lines 64-65: for every named vsys entry below a named device entry below a
\* named entry, the third entry on its ancestor axis; the result is a node-set,
\* so one entry element appears in it once; then its name
PanoramaAncestors(t) ==
    LET vsysNodes == UNION {{<<i, v>> : v \in 1..t.entries[i].nvsys} :
                              i \in {k \in 1..Len(t.entries) :
                                        HasAttr(t.entries[k], "name")}}
        third == {n[1] : n \in vsysNodes}
        nodes == SortedSeq(third)
    IN  [j \in 1..Len(nodes) |-> Attr(t.entries[nodes[j]], "name")]

RECURSIVE DisplayTextNodes(_, _)
\* line 68: the text nodes of display-name below the entries whose name
\* contains 'vsys'; each node is given by the index of the entry that holds
\* its display-name element
DisplayTextNodes(t, i) ==
    IF i > Len(t.entries) THEN <<>>
    ELSE LET e == t.entries[i]
         IN  (IF HasAttr(e, "name") /\ ContainsVsys(Attr(e, "name"))
              THEN [k \in 1..Len(e.display) |-> i]
              ELSE <<>>) \o DisplayTextNodes(t, i + 1)

\* SelfAncestors with every named entry taken as a scope when no entry
\* matches
SelfAncestorsDefault(t) ==
    LET nodes == DisplayTextNodes(t, 1)
        named == SortedSeq({i \in 1..Len(t.entries) : HasAttr(t.entries[i], "name")})
    IN  IF nodes = <<>>
        THEN [j \in 1..Len(named) |-> Attr(t.entries[named[j]], "name")]
        ELSE [j \in 1..Len(nodes) |-> Attr(t.entries[nodes[j]], "name")]

\* lines 69-71: vsys.getparent() is the display-name element and its parent
\* the entry; one name per text node, repeats kept
SelfAncestors(t) ==
    LET nodes == DisplayTextNodes(t, 1)
    IN  [j \in 1..Len(nodes) |-> Join("", <<Attr(t.entries[nodes[j]], "name")>>)]

RECURSIVE RulesOf(_, _, _)
\* //entry[@name=X]/*rulebase*/security/rules/entry[@name], document order
RulesOf(t, X, i) ==
    IF i > Len(t.entries) THEN <<>>
    ELSE LET e == t.entries[i]
         IN  (IF HasAttr(e, "name") /\ Attr(e, "name") = X
              THEN e.rules ELSE <<>>) \o RulesOf(t, X, i + 1)

RECURSIVE FieldNodes(_, _)
\* lines 74-79: .../entry[@name]/*[self::f[member]] for f the field; a node
\* is the element with its parent rule entry
FieldNodes(rules, f) ==
    IF rules = <<>> THEN <<>>
    ELSE LET r == Head(rules)
         IN  (IF HasAttr(r, "name") /\ HasMember(r[f])
              THEN <<[parent |-> r, el |-> r[f]]>> ELSE <<>>)
             \o FieldNodes(Tail(rules), f)

RECURSIVE DisplayTexts(_, _, _)
\* line 83: //entry[@name=X]/display-name/text()
DisplayTexts(t, X, i) ==
    IF i > Len(t.entries) THEN <<>>
    ELSE LET e == t.entries[i]
         IN  (IF HasAttr(e, "name") /\ Attr(e, "name") = X
              THEN e.display ELSE <<>>) \o DisplayTexts(t, X, i + 1)

\* OwnerLabel without the '-pan' suffix
OwnerLabelUnsuffixed(t, pan, ancestor) ==
    IF pan = "True" THEN ancestor
    ELSE Join("", DisplayTexts(t, ancestor, 1))

\* lines 80-83 and the ''.join of line 90
OwnerLabel(t, pan, ancestor) ==
    IF pan = "True" THEN ancestor \o "-pan"
    ELSE Join("", DisplayTexts(t, ancestor, 1))

\* lines 87-89: ';'.join(''.join(el.itertext()).split())
JoinedMembers(el) == Join(";", Split(Flatten(IterText(el))))

\* MakeRow with the destination before the port
MakeRowSwapped(owner, src, dst, port) ==
    <<owner, Values(src.parent)[1],
      JoinedMembers(src.el), JoinedMembers(dst.el), JoinedMembers(port.el)>>

\* line 90: the row built from one triple of the zip
MakeRow(owner, src, dst, port) ==
    <<owner, Values(src.parent)[1],
      JoinedMembers(src.el), JoinedMembers(port.el), JoinedMembers(dst.el)>>

\* line 85: zip stops at the shortest of the three node lists
ZipLen(src, dst, port) == Min(Len(src), Min(Len(dst), Len(port)))

\* lines 74-90: the rows of one iteration of the ancestor loop
ScopeRows(t, pan, ancestor) ==
    LET rules == RulesOf(t, ancestor, 1)
        vsys_rule_src  == FieldNodes(rules, "source")
        vsys_rule_dst  == FieldNodes(rules, "destination")
        vsys_rule_port == FieldNodes(rules, "service")
        pa_vsys_name   == OwnerLabel(t, pan, ancestor)
        n == ZipLen(vsys_rule_src, vsys_rule_dst, vsys_rule_port)
    IN  [i \in 1..n |-> MakeRow(pa_vsys_name, vsys_rule_src[i],
                                vsys_rule_dst[i], vsys_rule_port[i])]

(***************************************************************************)
(* The program: __main__ with the two calls it makes per document.         *)
(***************************************************************************)
TypeInit ==
    /\ ci = 0
    /\ tree = NoTree
    /\ pc = "loop"
    /\ services = EmptyDict
    /\ addresses = EmptyDict
    /\ service_groups = EmptyDict
    /\ address_groups = EmptyDict
    /\ pan_conf = "None"
    /\ pa_rulebase_ancestor = <<>>
    /\ ai = 0
    /\ pa_rule_base = <<>>
    /\ rule_base = <<>>
    /\ flat_rule_base_unique = {}
    /\ rows = <<>>

\* lines 98-99: the next file of conf_path is parsed into the global tree
ParseConf ==
    /\ pc = "loop"
    /\ ci < Len(conf_path)
    /\ tree' = conf_path[ci + 1]
    /\ pc' = "obj"
    /\ UNCHANGED <<conf_path, ci, services, addresses, service_groups,
                   address_groups, pan_conf, pa_rulebase_ancestor, ai,
                   pa_rule_base, rule_base, flat_rule_base_unique, rows>>

\* line 102: pa_obj_parser, lines 10-45
ObjParser ==
    /\ pc = "obj"
    /\ services' = PaServices(tree.services, EmptyDict)
    /\ addresses' = PaAddresses(tree.addresses, EmptyDict)
    /\ service_groups' = PaGroups(tree.service_groups, EmptyDict)
    /\ address_groups' = PaGroups(tree.address_groups, EmptyDict)
    /\ pc' = "rules"
    /\ UNCHANGED <<conf_path, ci, tree, pan_conf, pa_rulebase_ancestor, ai,
                   pa_rule_base, rule_base, flat_rule_base_unique, rows>>

\* RuleParserResolve with pa_rule_base kept from the call before
RuleParserResolveKeepRows ==
    /\ pc = "rules"
    /\ pa_rule_base' = pa_rule_base
    /\ pan_conf' = IF IsPanorama(tree) THEN "True" ELSE "None"
    /\ pa_rulebase_ancestor' =
           IF IsPanorama(tree) THEN PanoramaAncestors(tree)
           ELSE SelfAncestors(tree)
    /\ ai' = 0
    /\ pc' = "ancestors"
    /\ UNCHANGED <<conf_path, ci, tree, services, addresses, service_groups,
                   address_groups, rule_base, flat_rule_base_unique, rows>>

\* line 104, lines 57-71: the call of pa_rule_parser up to the ancestor loop
RuleParserResolve ==
    /\ pc = "rules"
    /\ pa_rule_base' = <<>>
    /\ pan_conf' = IF IsPanorama(tree) THEN "True" ELSE "None"
    /\ pa_rulebase_ancestor' =
           IF IsPanorama(tree) THEN PanoramaAncestors(tree)
           ELSE SelfAncestors(tree)
    /\ ai' = 0
    /\ pc' = "ancestors"
    /\ UNCHANGED <<conf_path, ci, tree, services, addresses, service_groups,
                   address_groups, rule_base, flat_rule_base_unique, rows>>

\* lines 73-90: one iteration of the ancestor loop
RuleParserScope ==
    /\ pc = "ancestors"
    /\ ai < Len(pa_rulebase_ancestor)
    /\ pa_rule_base' =
           pa_rule_base \o ScopeRows(tree, pan_conf, pa_rulebase_ancestor[ai + 1])
    /\ ai' = ai + 1
    /\ UNCHANGED <<conf_path, ci, tree, pc, services, addresses,
                   service_groups, address_groups, pan_conf,
                   pa_rulebase_ancestor, rule_base, flat_rule_base_unique,
                   rows>>

\* lines 92, 104-105: the return and rule_base.append(device_rules)
RuleParserReturn ==
    /\ pc = "ancestors"
    /\ ai = Len(pa_rulebase_ancestor)
    /\ rule_base' = Append(rule_base, pa_rule_base)
    /\ ci' = ci + 1
    /\ pc' = "loop"
    /\ UNCHANGED <<conf_path, tree, services, addresses, service_groups,
                   address_groups, pan_conf, pa_rulebase_ancestor, ai,
                   pa_rule_base, flat_rule_base_unique, rows>>

\* line 108: list(itertools.chain(*rule_base))
Chain(lists) == Flatten(lists)

\* UniqueRows keyed by the rule name instead of the whole row
UniqueRowsByName(lists) ==
    LET all == Range(Chain(lists))
    IN  {CHOOSE r \in all : r[2] = n : n \in {r[2] : r \in all}}

\* line 109: set(tuple(row) for row in flat_rule_base)
UniqueRows(lists) == Range(Chain(lists))

\* lines 108-109, after the last file
Dedup ==
    /\ pc = "loop"
    /\ ci = Len(conf_path)
    /\ flat_rule_base_unique' = UniqueRows(rule_base)
    /\ pc' = "write"
    /\ UNCHANGED <<conf_path, ci, tree, services, addresses, service_groups,
                   address_groups, pan_conf, pa_rulebase_ancestor, ai,
                   pa_rule_base, rule_base, rows>>

\* lines 112-114: writerows over a set; the iteration order of a set of
\* tuples of strings is not fixed, so any order of its elements is written
WriteRows ==
    /\ pc = "write"
    /\ rows' \in Perms(flat_rule_base_unique)
    /\ pc' = "done"
    /\ UNCHANGED <<conf_path, ci, tree, services, addresses, service_groups,
                   address_groups, pan_conf, pa_rulebase_ancestor, ai,
                   pa_rule_base, rule_base, flat_rule_base_unique>>

Next ==
    \/ ParseConf
    \/ ObjParser
    \/ RuleParserResolve
    \/ RuleParserScope
    \/ RuleParserReturn
    \/ Dedup
    \/ WriteRows

(***************************************************************************)
(* Input documents.  PAN-OS writes name as the first attribute of an       *)
(* entry; a rule entry may carry a uuid behind it.                         *)
(***************************************************************************)
RuleNames == {"allow-web", "rule-a"}

RuleAttrib(name) ==
    IF name = "rule-a" THEN <<<<"name", name>>, <<"uuid", "u-1">>>>
    ELSE <<<<"name", name>>>>

\* the member lists a rule entry may hold: a missing element, an element
\* without <member>, one member, two members (one of them with a blank in it)
SourceLists(pretty) ==
    {NoElem, Elem(<<<<"any">>>>, pretty),
     Elem(<<<<"net", WS, "a">>, <<"h2">>>>, pretty)}

DestinationLists(pretty) ==
    {Elem(<<>>, pretty), Elem(<<<<"web-srv">>>>, pretty)}

ServiceLists(pretty) ==
    {NoElem, Elem(<<<<"service-http">>>>, pretty)}

RulePool(pretty) ==
    {RuleEntry(RuleAttrib(n), s, d, p) :
        n \in RuleNames, s \in SourceLists(pretty),
        d \in DestinationLists(pretty), p \in ServiceLists(pretty)}

\* a rule entry with all three member lists, in an indented document
FullRule(name) ==
    IF name = "allow-web"
    THEN RuleEntry(RuleAttrib(name),
                   Elem(<<<<"any">>>>, TRUE),
                   Elem(<<<<"web-srv">>>>, TRUE),
                   Elem(<<<<"service-http">>>>, TRUE))
    ELSE RuleEntry(RuleAttrib(name),
                   Elem(<<<<"1.1.1.0/24">>, <<"h2">>>>, TRUE),
                   Elem(<<<<"2.2.2.0/24">>>>, TRUE),
                   Elem(<<<<"tcp_80">>>>, TRUE))

ServiceDef(name, tag, port) ==
    [attrib |-> <<<<"name", name>>>>, tag |-> tag, port |-> <<port>>]

PortTexts == {"1-65535", "80", "1-65535,8080", "11-65535"}

ServicePool ==
    {ServiceDef(n, t, p) : n \in {"svc-a", "svc-b"}, t \in {"tcp", "udp"},
                           p \in PortTexts}

FixedServices == <<ServiceDef("svc-a", "tcp", "1-65535")>>

FixedAddresses ==
    <<[attrib |-> <<<<"name", "web-srv">>>>,
       netmask |-> <<<<"10.0.0.1/32">>>>]>>

FixedServiceGroups ==
    <<[attrib |-> <<<<"name", "sg-web">>>>,
       members |-> Elem(<<<<"svc-a">>, <<"svc-b">>>>, TRUE)],
      [attrib |-> <<<<"name", "sg-none">>>>, members |-> Elem(<<>>, TRUE)]>>

FixedAddressGroups ==
    <<[attrib |-> <<<<"name", "ag-web">>>>,
       members |-> Elem(<<<<"web-srv">>>>, TRUE)]>>

DocOf(panorama, entries) ==
    Doc(panorama, entries, FixedServices, FixedAddresses,
        FixedServiceGroups, FixedAddressGroups)

\* one scope, vsys1 shown as DMZ, with any rule base of the pool
RuleDocs(maxRules) ==
    {DocOf(pan, <<Entry("vsys1", <<"DMZ">>, 1, rules)>>) :
        pan \in BOOLEAN,
        rules \in UNION {SeqUpTo(RulePool(pretty), maxRules) :
                           pretty \in BOOLEAN}}

EntryNames == {"vsys1", "vsys2", "DG1"}

RuleBases == {<<>>, <<FullRule("allow-web"), FullRule("rule-a")>>}

\* entries of a firewall export: a display-name or none, no device list
SelfEntries ==
    {Entry(n, d, 0, rb) :
        n \in EntryNames, d \in {<<>>, <<"DMZ">>}, rb \in RuleBases}

\* entries of a Panorama export: device groups with their devices' vsys
PanoramaEntries(maxVsys) ==
    {Entry(n, <<"DMZ">>, k, rb) :
        n \in EntryNames, k \in 0..maxVsys, rb \in RuleBases}

ScopeDocs(maxEntries, maxVsys) ==
    {DocOf(FALSE, es) : es \in SeqUpTo(SelfEntries, maxEntries)}
    \cup {DocOf(TRUE, es) :
             es \in SeqUpTo(PanoramaEntries(maxVsys), maxEntries)}

\* the documents of the aggregation runs
DocPool ==
    {DocOf(FALSE, <<Entry("vsys1", <<"DMZ">>, 0, <<FullRule("rule-a")>>)>>),
     DocOf(FALSE, <<Entry("vsys1", <<"DMZ">>, 0,
                          <<FullRule("rule-a"), FullRule("allow-web")>>)>>),
     DocOf(FALSE, <<Entry("vsys2", <<"Internal">>, 0, <<FullRule("rule-a")>>)>>),
     DocOf(TRUE, <<Entry("DG1", <<>>, 1, <<FullRule("rule-a")>>)>>),
     DocOf(FALSE, <<Entry("fw1", <<"Edge">>, 0, <<FullRule("allow-web")>>)>>)}

ObjDocs(maxServices) ==
    {Doc(FALSE, <<Entry("vsys1", <<"DMZ">>, 0, <<FullRule("allow-web")>>)>>,
         svcs, FixedAddresses, FixedServiceGroups, FixedAddressGroups) :
        svcs \in SeqUpTo(ServicePool, maxServices)}

\* one document of any rule base under one scope
InitRules == TypeInit /\ conf_path \in {<<d>> : d \in RuleDocs(MaxRules)}

\* one document of any scope layout
InitScopes == TypeInit /\ conf_path \in {<<d>> : d \in ScopeDocs(MaxEntries, MaxVsys)}

\* any sequence of pool documents
InitAgg == TypeInit /\ conf_path \in SeqUpTo(DocPool, MaxConfs)

\* one document of any service definitions
InitObj == TypeInit /\ conf_path \in {<<d>> : d \in ObjDocs(MaxServices)}

SpecRules == InitRules /\ [][Next]_vars
SpecScopes == InitScopes /\ [][Next]_vars
SpecAgg == InitAgg /\ [][Next]_vars
SpecObj == InitObj /\ [][Next]_vars

(***************************************************************************)
(* Vocabulary of the properties.                                           *)
(***************************************************************************)
\* the documents pa_rule_parser has returned for: rule_base[i] is the list
\* returned for conf_path[i]
Returned == 1..Len(rule_base)

NoRepeat(s) == \A i, j \in 1..Len(s) : i # j => s[i] # s[j]

\* a rule entry with a non-empty source, destination and service list
IsFull(r) ==
    HasMember(r.source) /\ HasMember(r.destination) /\ HasMember(r.service)

\* the whitespace-separated tokens of a member list, joined with ';'
TokenField(el) == Join(";", Split(Flatten(IterText(el))))

\* the rule entries of a document, each with the entry that owns it
RuleEntriesOf(d) ==
    UNION {{<<i, k>> : k \in 1..Len(d.entries[i].rules)} :
             i \in 1..Len(d.entries)}

RuleAt(d, n) == d.entries[n[1]].rules[n[2]]

\* the name of rule entry n is carried by no other rule entry of d
UniqueRuleName(d, n) ==
    \A m \in RuleEntriesOf(d) :
        m # n => Attr(RuleAt(d, m), "name") # Attr(RuleAt(d, n), "name")

\* C1: a rule entry that lacks a non-empty source, destination or service
\* member list yields no record: no returned record carries its name
\* (stated for entries whose name no other rule entry shares).
C1_IncompleteRuleExcluded ==
    \A i \in Returned :
        \A n \in RuleEntriesOf(conf_path[i]) :
            (~IsFull(RuleAt(conf_path[i], n)) /\ UniqueRuleName(conf_path[i], n))
            => \A rec \in Range(rule_base[i]) :
                   rec[2] # Attr(RuleAt(conf_path[i], n), "name")

\* C2: every returned record is built from one rule entry: its name and the
\* ';'-joined tokens of that entry's own source, service and destination
\* lists.
C2_RecordFromOneEntry ==
    \A i \in Returned :
        \A rec \in Range(rule_base[i]) :
            \E n \in RuleEntriesOf(conf_path[i]) :
                LET r == RuleAt(conf_path[i], n)
                IN  /\ rec[2] = Attr(r, "name")
                    /\ HasMember(r.source) /\ rec[3] = TokenField(r.source)
                    /\ HasMember(r.service) /\ rec[4] = TokenField(r.service)
                    /\ HasMember(r.destination)
                    /\ rec[5] = TokenField(r.destination)

\* the case of C3: one document, self-managed, whose only entry is a virtual
\* system with a display-name and whose rule entries are all full
OneScopeAllFull ==
    /\ Len(conf_path) = 1
    /\ ~conf_path[1].panorama
    /\ Len(conf_path[1].entries) = 1
    /\ ContainsVsys(Attr(conf_path[1].entries[1], "name"))
    /\ Len(conf_path[1].entries[1].display) = 1
    /\ \A k \in 1..Len(conf_path[1].entries[1].rules) :
           IsFull(conf_path[1].entries[1].rules[k])

ExpectedRow(e, r) ==
    <<e.display[1], Attr(r, "name"), TokenField(r.source),
      TokenField(r.service), TokenField(r.destination)>>

\* C3: in self-managed mode, one virtual system with a display-name and only
\* full rule entries gives one record per rule entry, in order, and the
\* written rows are exactly these records, each once: (display-name, rule
\* name, source tokens, service tokens, destination tokens).
C3_OneRowPerRule ==
    (OneScopeAllFull /\ pc = "done") =>
        LET e == conf_path[1].entries[1]
        IN  /\ rule_base[1] = [k \in 1..Len(e.rules) |-> ExpectedRow(e, e.rules[k])]
            /\ Range(rows) = {ExpectedRow(e, e.rules[k]) : k \in 1..Len(e.rules)}
            /\ NoRepeat(rows)

\* the scenario of the specification: vsys1 shown as DMZ, rule allow-web
C3_Witness ==
    /\ OneScopeAllFull
    /\ pc = "done"
    /\ rows = <<<<"DMZ", "allow-web", "any", "service-http", "web-srv">>>>

\* C4: in self-managed mode the full rules of a vsys entry without
\* display-name are still extracted, with the scope identifier as owner.
C4_FallbackOwner ==
    \A i \in Returned :
        ~conf_path[i].panorama =>
            \A n \in RuleEntriesOf(conf_path[i]) :
                LET e == conf_path[i].entries[n[1]]
                    r == RuleAt(conf_path[i], n)
                IN  (ContainsVsys(Attr(e, "name")) /\ e.display = <<>> /\ IsFull(r))
                    => \E rec \in Range(rule_base[i]) :
                           /\ rec[1] = Attr(e, "name")
                           /\ rec[2] = Attr(r, "name")

\* C5: in centrally-managed mode every record's owner is S-pan for an entry
\* named S that lies three entry levels above a virtual system, the record's
\* rule lies in a rule base of an entry named S, and no owner is a
\* display-name or a bare entry name.
C5_PanoramaOwner ==
    \A i \in Returned :
        conf_path[i].panorama =>
            \A rec \in Range(rule_base[i]) :
                /\ \E j \in 1..Len(conf_path[i].entries) :
                       LET S == Attr(conf_path[i].entries[j], "name")
                       IN  /\ conf_path[i].entries[j].nvsys > 0
                           /\ rec[1] = S \o "-pan"
                           /\ \E n \in RuleEntriesOf(conf_path[i]) :
                                  /\ Attr(conf_path[i].entries[n[1]], "name") = S
                                  /\ Attr(RuleAt(conf_path[i], n), "name") = rec[2]
                /\ \A j \in 1..Len(conf_path[i].entries) :
                       /\ rec[1] # Attr(conf_path[i].entries[j], "name")
                       /\ rec[1] \notin Range(conf_path[i].entries[j].display)

C5_Witness ==
    /\ Len(conf_path) = 1 /\ Len(rule_base) = 1
    /\ conf_path[1].panorama
    /\ \E rec \in Range(rule_base[1]) : rec[1] = "DG1-pan"
    /\ \E j \in 1..Len(conf_path[1].entries) :
           conf_path[1].entries[j].display # <<>>

\* C6: the written rows hold every 5-tuple once, and hold exactly the
\* 5-tuples that some document produced.
C6_UniqueRows ==
    pc = "done" =>
        /\ NoRepeat(rows)
        /\ Range(rows) = UNION {Range(rule_base[i]) : i \in Returned}
        /\ Len(rule_base) = Len(conf_path)

\* two documents gave the same 5-tuple, and two rows differ in the owner only
C6_Witness ==
    /\ pc = "done"
    /\ \E i, j \in Returned :
           i # j /\ Range(rule_base[i]) \cap Range(rule_base[j]) # {}
    /\ \E a, b \in Range(rows) :
           a[1] # b[1] /\ a[2] = b[2] /\ a[3] = b[3] /\ a[4] = b[4] /\ a[5] = b[5]

\* the last definition of the name of service definition k
LastOfName(defs, k) ==
    defs[CHOOSE m \in 1..Len(defs) :
            /\ Attr(defs[m], "name") = Attr(defs[k], "name")
            /\ \A m2 \in 1..Len(defs) :
                   Attr(defs[m2], "name") = Attr(defs[k], "name") => m2 <= m]

\* C7: after pa_obj_parser every service name maps to <tag>_<port> of its
\* (last) definition, <port> being any for the text 1-65535 and the text
\* itself for every other text.
C7_ServiceType ==
    pc \in {"rules", "ancestors"} =>
        /\ DOMAIN services =
               {Attr(tree.services[k], "name") : k \in 1..Len(tree.services)}
        /\ \A k \in 1..Len(tree.services) :
               LET d == LastOfName(tree.services, k)
               IN  services[Attr(d, "name")] =
                       d.tag \o "_" \o
                       (IF d.port = <<"1-65535">> THEN "any" ELSE d.port[1])

C7_Witness ==
    /\ pc = "rules"
    /\ \E k \in DOMAIN services : services[k] = "tcp_any"
    /\ \E k \in DOMAIN services : services[k] = "udp_1-65535,8080"

\* the first positions of the documents of conf_path
FirstOccurrences ==
    {i \in Returned : \A j \in 1..(i - 1) : conf_path[j] # conf_path[i]}

\* C8: the same document gives the same records each time it is extracted,
\* and the written rows are those of the distinct documents.
C8_Idempotent ==
    /\ \A i, j \in Returned :
           conf_path[i] = conf_path[j] => rule_base[i] = rule_base[j]
    /\ pc = "done" =>
           Range(rows) = UNION {Range(rule_base[i]) : i \in FirstOccurrences}

C8_Witness ==
    /\ pc = "done"
    /\ \E i, j \in Returned :
           i < j /\ conf_path[i] = conf_path[j] /\ rule_base[j] # <<>>
    /\ FirstOccurrences # Returned
    /\ Cardinality(FirstOccurrences) > 1

\* a self-managed document without an entry whose name contains vsys
ZeroScopes(d) ==
    /\ ~d.panorama
    /\ \A j \in 1..Len(d.entries) : ~ContainsVsys(Attr(d.entries[j], "name"))

\* C9: a document of zero scopes returns no record and does not stop the
\* run: the call returns, every document is processed and every record of
\* every document is written.
C9_ZeroScopes ==
    /\ \A i \in Returned : ZeroScopes(conf_path[i]) => rule_base[i] = <<>>
    /\ (pc = "ancestors" /\ ZeroScopes(tree)) =>
           (pa_rule_base = <<>> /\ ENABLED RuleParserReturn)
    /\ pc = "done" =>
           /\ Len(rule_base) = Len(conf_path)
           /\ \A i \in Returned : Range(rule_base[i]) \subseteq Range(rows)

C9_Witness ==
    /\ pc = "done"
    /\ \E i, j \in Returned :
           /\ i < j
           /\ ZeroScopes(conf_path[i]) /\ conf_path[i].entries # <<>>
           /\ rule_base[j] # <<>>

\* C10: the scope identifiers handed to the ancestor loop hold no identifier
\* twice.
C10_NoRepeatedScope == NoRepeat(pa_rulebase_ancestor)

====
